---- MODULE Spec2Model ----
(***************************************************************************)
(* LEOMissionPlanning ("Vortexa Selenic v7").                              *)
(*                                                                         *)
(*   preprocess_population.py  convert_density_to_count: the offline       *)
(*                             density -> count conversion                 *)
(*   app.py                    get_population_estimate (point query) and   *)
(*                             get_coverage_score (footprint sweep)        *)
(*                                                                         *)
(* Floating point values are modelled as exact rationals plus the two      *)
(* IEEE specials the conversion can meet (+inf and NaN); rounding error is *)
(* not modelled.  Angles are whole degrees on a 5 degree lattice, so that  *)
(* the trigonometry of the code can be tabulated.                          *)
(***************************************************************************)
EXTENDS Integers, Sequences, FiniteSets, TLC

VARIABLES
    \* ---- convert_density_to_count (preprocess_population.py) ----
    conv_pc,            \* position of the conversion run
    conv_args,          \* density_units, target_pop, default_crs
    src,                \* the opened raster: declared crs, georeferencing, band 1
    crs,                \* the effective CRS (line 36 / 43)
    density,            \* filled(density, 0.0) after the land mask
    pop_counts,         \* pop_counts (line 95/97, scaled in place at line 105)
    total_pop_raw,
    scale_factor,
    total_pop_adjusted,
    array_file,         \* the .npy file on disk
    meta_file,          \* the _meta.json sidecar on disk
    \* ---- app.py ----
    POPULATION_COUNT_DATA,
    RASTER_TRANSFORM,
    RASTER_SHAPE,
    groundTrack,        \* subpoints the propagator returns for t = 0, 10, 20, ...
    sweep_pc,           \* per coverage-score request: position
    sweep_t,            \* per coverage-score request: samples processed
    covered_pixels,     \* per coverage-score request: the local set
    sweep_resp,         \* per coverage-score request: the response
    est_req,            \* the last population-estimate request's arguments
    est_resp            \* and its response

conv_vars == <<conv_pc, conv_args, src, crs, density, pop_counts, total_pop_raw,
               scale_factor, total_pop_adjusted, array_file, meta_file>>
app_globals == <<POPULATION_COUNT_DATA, RASTER_TRANSFORM, RASTER_SHAPE, groundTrack>>
sweep_vars == <<sweep_pc, sweep_t, covered_pixels, sweep_resp>>
est_vars == <<est_req, est_resp>>
vars == <<conv_vars, app_globals, sweep_vars, est_vars>>

-----------------------------------------------------------------------------
(* Arithmetic helpers *)

Abs(x) == IF x < 0 THEN -x ELSE x

Max(a, b) == IF a >= b THEN a ELSE b

Min(a, b) == IF a <= b THEN a ELSE b

RECURSIVE GCD(_, _)
GCD(a, b) == IF b = 0 THEN a ELSE GCD(b, a % b)

\* Cosine of a whole number of degrees (a multiple of 5), scaled by 10^4.
CosTable == <<10000, 9962, 9848, 9659, 9397, 9063, 8660, 8192, 7660, 7071,
              6428, 5736, 5000, 4226, 3420, 2588, 1736, 872, 0>>

CosE4(deg) ==
    LET m == deg % 360
        r == IF m > 180 THEN 360 - m ELSE m
    IN  IF r <= 90 THEN CosTable[(r \div 5) + 1]
        ELSE -CosTable[((180 - r) \div 5) + 1]

SinE4(deg) == CosE4(90 - deg)

-----------------------------------------------------------------------------
(* float64 values: an exact rational n/d (d > 0, lowest terms), +inf or NaN *)

Fin(n, d) ==
    LET g == GCD(Abs(n), d)
    IN  [k |-> "fin", n |-> n \div g, d |-> d \div g]

PosInf == [k |-> "inf", n |-> 0, d |-> 1]

NaN == [k |-> "nan", n |-> 0, d |-> 1]

Unset == [k |-> "unset", n |-> 0, d |-> 1]

IsFinite(x) == x.k = "fin"

IsZero(x) == x.k = "fin" /\ x.n = 0

FMul(x, y) ==
    IF x.k = "nan" \/ y.k = "nan" THEN NaN
    ELSE IF x.k = "inf" \/ y.k = "inf"
         THEN (IF IsZero(x) \/ IsZero(y) THEN NaN ELSE PosInf)
         ELSE Fin(x.n * y.n, x.d * y.d)

FAdd(x, y) ==
    IF x.k = "nan" \/ y.k = "nan" THEN NaN
    ELSE IF x.k = "inf" \/ y.k = "inf" THEN PosInf
    ELSE LET g == GCD(x.d, y.d)
             l == (x.d \div g) * y.d
         IN  Fin(x.n * (l \div x.d) + y.n * (l \div y.d), l)

\* x / y for y # 0 (Python raises ZeroDivisionError on a zero float divisor)
FDiv(x, y) ==
    IF x.k = "nan" \/ y.k = "nan" THEN NaN
    ELSE IF y.k = "inf" THEN (IF x.k = "inf" THEN NaN ELSE Fin(0, 1))
    ELSE IF x.k = "inf" THEN PosInf
    ELSE Fin(x.n * y.d, x.d * y.n)

-----------------------------------------------------------------------------
(* convert_density_to_count                                                *)

nrows == 2

ncols == 1

Cells == (0 .. nrows - 1) \X (0 .. ncols - 1)

\* the value the raster declares as nodata
NoData == [k |-> "nodata", n |-> 0, d |-> 1]

DensityValues == {Fin(0, 1), Fin(1, 1), Fin(3, 1), PosInf, NaN, NoData}

\* A raster on a 10 degree geographic lattice whose top edge is latitude 15
\* (it declares EPSG:4326 or no CRS at all), or a raster on a 2000 m
\* projected lattice declaring EPSG:3857.
GeoTransform == [a |-> 10, e |-> -10, c |-> -15, f |-> 15]

ProjTransform == [a |-> 2000, e |-> -2000, c |-> 0, f |-> 0]

Georeferencing ==
    { [crs |-> "EPSG:4326", transform |-> GeoTransform],
      [crs |-> "none", transform |-> GeoTransform],
      [crs |-> "EPSG:3857", transform |-> ProjTransform] }

DensityUnits == {"per_km2", "per_pixel", "per_m2"}

TargetPops == {7, 10}

DefaultCRSs == {"EPSG:4326", "epsg:4326", "EPSG:3857"}

\* rasterio.crs.CRS.from_string(s).to_string(): the authority name in capitals
CRSFromString(s) == IF s = "epsg:4326" THEN "EPSG:4326" ELSE s

is_geographic(c) == c = "EPSG:4326"

\* lines 40-43
EffectiveCRS(declared, default_crs) ==
    IF declared = "none" THEN CRSFromString(default_crs) ELSE declared

\* lines 63-64 and 93: pixels outside the land polygons get the nodata value,
\* nodata pixels are masked, masked pixels are filled with 0.0
LandMasked(band, land) ==
    [p \in Cells |->
        IF p \notin land \/ band[p] = NoData THEN Fin(0, 1) ELSE band[p]]

\* line 77: latitude of the centre of row r
RowLat(t, r) == t.f + t.e * r + (t.e \div 2)

\* lines 79-82, in whole km
PixelWidthKm(t, r) == (Abs(t.a) * 11132 * CosE4(RowLat(t, r))) \div 1000000

PixelHeightKm(t, r) ==
    LET s2 == (SinE4(RowLat(t, r)) * SinE4(RowLat(t, r))) \div 10000
        s4 == (s2 * s2) \div 10000
        h  == 111132000 - ((559 * s2) \div 10) + ((12 * s4) \div 100)
    IN  (Abs(t.e) * h) \div 1000000

\* lines 72-90
pixel_area_km2(c, t, r) ==
    IF is_geographic(c)
    THEN Fin(PixelWidthKm(t, r) * PixelHeightKm(t, r), 1)
    ELSE Fin(Abs(t.a) * Abs(t.e), 1000000)

\* lines 93-97
RawCounts(units, filled, c, t) ==
    [p \in Cells |->
        IF units = "per_km2" THEN FMul(filled[p], pixel_area_km2(c, t, p[1]))
        ELSE filled[p]]

\* np.sum
RECURSIVE SumOver(_, _)
SumOver(grid, S) ==
    IF S = {} THEN Fin(0, 1)
    ELSE LET p == CHOOSE q \in S : TRUE
         IN  FAdd(grid[p], SumOver(grid, S \ {p}))

\* np.sum(pop_counts[0]): only the first row is summed
NpSumFirstRow(grid) == SumOver(grid, {p \in Cells : p[1] = 0})

NpSum(grid) == SumOver(grid, Cells)

\* line 105
Scaled(grid, factor) == [p \in Cells |-> FMul(grid[p], factor)]

NoGrid == [p \in Cells |-> Unset]

NoFile == [state |-> "absent", data |-> NoGrid]

NoMetadata ==
    [total_raw |-> Unset, total_adjusted |-> Unset, scale_factor |-> Unset,
     target_population |-> 0, crs |-> "", default_crs_applied |-> FALSE]

NoMetaFile == [state |-> "absent", metadata |-> NoMetadata]

NoRaster == [crs |-> "none", transform |-> GeoTransform, band |-> NoGrid]

\* line 119
default_crs_applied(c, default_crs) == c = default_crs

\* lines 110-120
Metadata ==
    [total_raw |-> total_pop_raw,
     total_adjusted |-> total_pop_adjusted,
     scale_factor |-> scale_factor,
     target_population |-> conv_args.target_pop,
     crs |-> crs,
     default_crs_applied |-> default_crs_applied(crs, conv_args.default_crs)]

ConvInit ==
    /\ conv_pc = "start"
    /\ conv_args \in [density_units : DensityUnits, target_pop : TargetPops,
                      default_crs : DefaultCRSs]
    /\ src = NoRaster
    /\ crs = "unset"
    /\ density = NoGrid
    /\ pop_counts = NoGrid
    /\ total_pop_raw = Unset
    /\ scale_factor = Unset
    /\ total_pop_adjusted = Unset
    /\ array_file = NoFile
    /\ meta_file = NoMetaFile

\* lines 133-135: the handler prints and re-raises; nothing is cleaned up
Raise ==
    /\ conv_pc' = "raised"

\* lines 33-69: open the raster, CRS fallback, land polygons, reprojection, mask
ReadInputs ==
    /\ conv_pc = "start"
    /\ \E g \in Georeferencing, band \in [Cells -> DensityValues],
          land \in SUBSET Cells, land_crs \in {"none", "EPSG:4326", "EPSG:3857"},
          io \in {"ok", "raster", "shapefile", "reproject", "mask"} :
         LET c == EffectiveCRS(g.crs, conv_args.default_crs)
             gdf_crs == IF land_crs = "none"
                        THEN CRSFromString(conv_args.default_crs) ELSE land_crs
         IN  /\ io = "reproject" => gdf_crs # c
             /\ IF io = "ok"
                THEN /\ src' = [crs |-> g.crs, transform |-> g.transform, band |-> band]
                     /\ crs' = c
                     /\ density' = LandMasked(band, land)
                     /\ conv_pc' = "masked"
                ELSE /\ Raise
                     /\ UNCHANGED <<src, crs, density>>
    /\ UNCHANGED <<conv_args, pop_counts, total_pop_raw, scale_factor,
                   total_pop_adjusted, array_file, meta_file>>
    /\ UNCHANGED <<app_globals, sweep_vars, est_vars>>

\* lines 71-101
ComputeCounts ==
    /\ conv_pc = "masked"
    /\ IF conv_args.density_units \in {"per_km2", "per_pixel"}
       THEN /\ pop_counts' = RawCounts(conv_args.density_units, density, crs,
                                       src.transform)
            /\ total_pop_raw' = NpSum(pop_counts')
            /\ conv_pc' = "counted"
       ELSE /\ Raise
            /\ UNCHANGED <<pop_counts, total_pop_raw>>
    /\ UNCHANGED <<conv_args, src, crs, density, scale_factor, total_pop_adjusted,
                   array_file, meta_file>>
    /\ UNCHANGED <<app_globals, sweep_vars, est_vars>>

\* line 104: a float division, so only a zero divisor raises
ScaleFactorRaises(total) == IsZero(total)

\* lines 103-106
Normalize ==
    /\ conv_pc = "counted"
    /\ IF ScaleFactorRaises(total_pop_raw)
       THEN /\ Raise
            /\ UNCHANGED <<pop_counts, scale_factor, total_pop_adjusted>>
       ELSE /\ scale_factor' = FDiv(Fin(conv_args.target_pop, 1), total_pop_raw)
            /\ pop_counts' = Scaled(pop_counts, scale_factor')
            /\ total_pop_adjusted' = NpSum(pop_counts')
            /\ conv_pc' = "normalized"
    /\ UNCHANGED <<conv_args, src, crs, density, total_pop_raw, array_file, meta_file>>
    /\ UNCHANGED <<app_globals, sweep_vars, est_vars>>

\* line 109: np.save; a failing write leaves no file or a truncated one
SaveArray ==
    /\ conv_pc = "normalized"
    /\ \E io \in {"ok", "absent", "partial"} :
         IF io = "ok"
         THEN /\ array_file' = [state |-> "complete", data |-> pop_counts]
              /\ conv_pc' = "saved"
         ELSE /\ array_file' = [state |-> io, data |-> NoGrid]
              /\ Raise
    /\ UNCHANGED <<conv_args, src, crs, density, pop_counts, total_pop_raw,
                   scale_factor, total_pop_adjusted, meta_file>>
    /\ UNCHANGED <<app_globals, sweep_vars, est_vars>>

\* lines 110-131: open(..., "w") and json.dump; a failing open leaves no
\* sidecar, a failing dump a truncated one
WriteMetadata ==
    /\ conv_pc = "saved"
    /\ \E io \in {"ok", "absent", "partial"} :
         IF io = "ok"
         THEN /\ meta_file' = [state |-> "complete", metadata |-> Metadata]
              /\ conv_pc' = "returned"
         ELSE /\ meta_file' = [state |-> io, metadata |-> NoMetadata]
              /\ Raise
    /\ UNCHANGED <<conv_args, src, crs, density, pop_counts, total_pop_raw,
                   scale_factor, total_pop_adjusted, array_file>>
    /\ UNCHANGED <<app_globals, sweep_vars, est_vars>>

ConvNext ==
    \/ ReadInputs
    \/ ComputeCounts
    \/ Normalize
    \/ SaveArray
    \/ WriteMetadata

-----------------------------------------------------------------------------
(* app.py: module globals                                                  *)

Rows == 3

Cols == 3

Pixels == (0 .. Rows - 1) \X (0 .. Cols - 1)

RECURSIVE Pow2(_)
Pow2(i) == IF i = 0 THEN 1 ELSE 2 * Pow2(i - 1)

\* population_count.npy: finite, non-negative counts with fractional parts
DenseRaster == [p \in Pixels |-> Fin(2 * Pow2(p[1] * Cols + p[2]) + 1, 2)]

\* row 0 and column 0 are ocean (count 0), every other pixel holds 2.5
CoastRaster == [p \in Pixels |-> IF p[1] = 0 \/ p[2] = 0 THEN Fin(0, 1) ELSE Fin(5, 2)]

Rasters == {DenseRaster, CoastRaster}

\* one orbital period of propagator output, one subpoint <<lat, lon>> per step
TrackLen == 2

SamplePoints == {<<0, 0>>, <<5, 5>>, <<20, 0>>, <<45, 0>>, <<-10, -10>>}

NReq == 2

Reqs == 1 .. NReq

NoResponse == [status |-> 0, value |-> 0]

Num(v) == [k |-> "num", v |-> v]

Missing == [k |-> "missing", v |-> 0]

Text == [k |-> "text", v |-> 0]

ArgNaN == [k |-> "nan", v |-> 0]

ArgInf == [k |-> "inf", v |-> 0]

NoRequest == [lat |-> Missing, lon |-> Missing, radius_km |-> Missing]

\* lines 41-45 and 31-34: the globals are set once, when the module is loaded
AppInit ==
    /\ POPULATION_COUNT_DATA \in Rasters
    /\ RASTER_TRANSFORM = GeoTransform
    /\ RASTER_SHAPE = <<Rows, Cols>>
    /\ groundTrack \in [1 .. TrackLen -> SamplePoints]
    /\ sweep_pc = [q \in Reqs |-> "idle"]
    /\ sweep_t = [q \in Reqs |-> 0]
    /\ covered_pixels = [q \in Reqs |-> {}]
    /\ sweep_resp = [q \in Reqs |-> NoResponse]
    /\ est_req = NoRequest
    /\ est_resp = NoResponse

-----------------------------------------------------------------------------
(* Coordinate mapping and the index box (app.py 150-168, 202-214)          *)

\* int(): truncation toward zero of n/d
TruncDiv(n, d) ==
    IF (n < 0) = (d < 0) THEN Abs(n) \div Abs(d) ELSE -(Abs(n) \div Abs(d))

\* round(): to the nearest integer, ties to the even one
RoundHalfEven(n, d) ==
    LET nn == IF d < 0 THEN -n ELSE n
        dd == Abs(d)
        q  == nn \div dd
        r  == nn - q * dd
    IN  IF 2 * r < dd THEN q
        ELSE IF 2 * r > dd THEN q + 1
        ELSE IF q % 2 = 0 THEN q ELSE q + 1

\* ~RASTER_TRANSFORM * (lon, lat), then int()
center_col(lon) == TruncDiv(lon - RASTER_TRANSFORM.c, RASTER_TRANSFORM.a)

center_row(lat) == TruncDiv(lat - RASTER_TRANSFORM.f, RASTER_TRANSFORM.e)

\* radius_km / (111.32 * cos(lat) * pixel_width_deg), 111.32 = 2783/25
LonQuotient(lat, radius_km) ==
    RoundHalfEven(radius_km * 250000, 2783 * CosE4(lat) * RASTER_TRANSFORM.a)

\* lines 159-161: the guarded form of the point query
col_radius(lat, radius_km) ==
    IF CosE4(lat) > 0 THEN Max(1, LonQuotient(lat, radius_km))
    ELSE 1

\* the rounded quotient alone, without the floor of one pixel
RowRadiusUnfloored(radius_km) ==
    RoundHalfEven(radius_km, 111 * Abs(RASTER_TRANSFORM.e))

\* line 163 / 209
row_radius(radius_km) ==
    Max(1, RoundHalfEven(radius_km, 111 * Abs(RASTER_TRANSFORM.e)))

row_start(lat, radius_km) == Max(0, center_row(lat) - row_radius(radius_km))

row_stop(lat, radius_km) ==
    Min(RASTER_SHAPE[1], center_row(lat) + row_radius(radius_km) + 1)

col_start(lat, lon, radius_km) == Max(0, center_col(lon) - col_radius(lat, radius_km))

col_stop(lat, lon, radius_km) ==
    Min(RASTER_SHAPE[2], center_col(lon) + col_radius(lat, radius_km) + 1)

\* a[start:stop] on an axis of length n: a negative bound counts from the end
SliceIndices(start, stop, n) ==
    LET s == IF start < 0 THEN Max(0, start + n) ELSE Min(start, n)
        e == IF stop < 0 THEN Max(0, stop + n) ELSE Min(stop, n)
    IN  s .. (e - 1)

\* range(start, stop)
Range(start, stop) == start .. (stop - 1)

\* np.nansum over a set of pixels: NaN counts as 0
RECURSIVE NanSum(_, _)
NanSum(grid, S) ==
    IF S = {} THEN Fin(0, 1)
    ELSE LET p == CHOOSE q \in S : TRUE
             v == IF grid[p].k = "nan" THEN Fin(0, 1) ELSE grid[p]
         IN  FAdd(v, NanSum(grid, S \ {p}))

\* the builtin sum() over a set of pixels
RECURSIVE PySum(_, _)
PySum(grid, S) ==
    IF S = {} THEN Fin(0, 1)
    ELSE LET p == CHOOSE q \in S : TRUE
         IN  FAdd(grid[p], PySum(grid, S \ {p}))

\* int() of a finite float
IntTrunc(x) == TruncDiv(x.n, x.d)

-----------------------------------------------------------------------------
(* get_population_estimate (app.py 143-180)                                *)

\* request.args.get('radius_km', 1)
ArgOrDefault(arg, default) == IF arg.k = "missing" THEN Num(default) ELSE arg

\* float(None) raises TypeError, float("abc") raises ValueError
FloatRaises(arg) == arg.k \in {"missing", "text"}

\* int(nan) raises ValueError, int(inf) raises OverflowError; round() likewise
IntRaises(arg) == arg.k \in {"nan", "inf"}

\* some statement of lines 146-177 raises
EstimateRaises(lat, lon, radius_km) ==
    \/ FloatRaises(lat)
    \/ FloatRaises(lon)
    \/ FloatRaises(ArgOrDefault(radius_km, 1))
    \/ IntRaises(lon)
    \/ IntRaises(lat)
    \/ IntRaises(ArgOrDefault(radius_km, 1))

\* line 170: the pixels of area_slice
EstimateBox(lat, lon, radius_km) ==
    SliceIndices(row_start(lat, radius_km), row_stop(lat, radius_km), RASTER_SHAPE[1])
    \X SliceIndices(col_start(lat, lon, radius_km), col_stop(lat, lon, radius_km),
                    RASTER_SHAPE[2])

\* lines 170-176
EstimatePopulation(lat, lon, radius_km) ==
    IntTrunc(NanSum(POPULATION_COUNT_DATA, EstimateBox(lat, lon, radius_km)))

\* the except clause of the other handlers: an error with status 500
ErrorResponse == [status |-> 500, value |-> 0]

\* lines 178-180
EstimateExceptResponse == [status |-> 200, value |-> 0]

EstimateResponse(lat, lon, radius_km) ==
    IF EstimateRaises(lat, lon, radius_km)
    THEN EstimateExceptResponse
    ELSE [status |-> 200,
          value |-> EstimatePopulation(lat.v, lon.v, ArgOrDefault(radius_km, 1).v)]

get_population_estimate(Lats, Lons, Radii) ==
    /\ est_resp = NoResponse
    /\ \E lat \in Lats, lon \in Lons, radius_km \in Radii :
         /\ est_req' = [lat |-> lat, lon |-> lon, radius_km |-> radius_km]
         /\ est_resp' = EstimateResponse(lat, lon, radius_km)
    /\ UNCHANGED <<conv_vars, app_globals, sweep_vars>>

\* the response leaves the process; the next request can be served
ReturnEstimate ==
    /\ est_resp # NoResponse
    /\ est_req' = NoRequest
    /\ est_resp' = NoResponse
    /\ UNCHANGED <<conv_vars, app_globals, sweep_vars>>

-----------------------------------------------------------------------------
(* get_coverage_score (app.py 182-227)                                     *)

spotbeam_radius_km == 1300

\* cos(1300 / 6371.009), scaled by 10^8: great_circle(...) <= 1300 km
CosSpotbeamE8 == 97925407

\* line 218: RASTER_TRANSFORM * (c + 0.5, r + 0.5)
pixel_lon(c) ==
    RASTER_TRANSFORM.c + RASTER_TRANSFORM.a * c + (RASTER_TRANSFORM.a \div 2)

pixel_lat(r) ==
    RASTER_TRANSFORM.f + RASTER_TRANSFORM.e * r + (RASTER_TRANSFORM.e \div 2)

\* cosine of the central angle between two points, scaled by 10^8
CosCentralAngleE8(lat1, lon1, lat2, lon2) ==
    SinE4(lat1) * SinE4(lat2)
    + ((CosE4(lat1) * CosE4(lat2)) \div 10000) * CosE4(lon1 - lon2)

\* lines 219-220
WithinSpotbeam(lat, lon, r, c) ==
    CosCentralAngleE8(lat, lon, pixel_lat(r), pixel_lon(c)) >= CosSpotbeamE8

\* line 208: unguarded
sweep_col_radius(lat) == Max(1, LonQuotient(lat, spotbeam_radius_km))

\* lines 211-221: the pixels one sample adds
SamplePixels(lat, lon) ==
    { p \in Range(Max(0, center_row(lat) - row_radius(spotbeam_radius_km)),
                  Min(RASTER_SHAPE[1],
                      center_row(lat) + row_radius(spotbeam_radius_km) + 1))
            \X Range(Max(0, center_col(lon) - sweep_col_radius(lat)),
                     Min(RASTER_SHAPE[2], center_col(lon) + sweep_col_radius(lat) + 1)) :
        WithinSpotbeam(lat, lon, p[1], p[2]) }

\* a pixel that is hit again is removed instead of kept
TogglePixels(covered, kept) == (covered \ kept) \cup (kept \ covered)

\* the set is overwritten by each sample instead of extended
ReplacePixels(covered, kept) == kept

\* line 221: covered_pixels.add((r, c)) for every kept pixel
AddPixels(covered, kept) == covered \cup kept

\* a single module-level set that every request uses
SharedCoverage(q) == 1

\* line 190: the set is a local of the handler, one per request
CoverageOwner(q) == q

\* lines 184-190
StartSweep(q) ==
    /\ sweep_pc[q] \in {"idle", "done"}
    /\ sweep_pc' = [sweep_pc EXCEPT ![q] = "loop"]
    /\ sweep_t' = [sweep_t EXCEPT ![q] = 0]
    /\ covered_pixels' = [covered_pixels EXCEPT ![CoverageOwner(q)] = {}]
    /\ sweep_resp' = [sweep_resp EXCEPT ![q] = NoResponse]
    /\ UNCHANGED <<conv_vars, app_globals, est_vars>>

\* lines 192-221: one iteration of the loop over t
SweepSample(q) ==
    /\ sweep_pc[q] = "loop"
    /\ sweep_t[q] < Len(groundTrack)
    /\ LET s == groundTrack[sweep_t[q] + 1]
       IN  covered_pixels' =
               [covered_pixels EXCEPT ![CoverageOwner(q)] =
                   AddPixels(covered_pixels[CoverageOwner(q)], SamplePixels(s[1], s[2]))]
    /\ sweep_t' = [sweep_t EXCEPT ![q] = sweep_t[q] + 1]
    /\ UNCHANGED <<sweep_pc, sweep_resp, conv_vars, app_globals, est_vars>>

\* lines 222-225
FinishSweep(q) ==
    /\ sweep_pc[q] = "loop"
    /\ sweep_t[q] = Len(groundTrack)
    /\ sweep_resp' =
           [sweep_resp EXCEPT ![q] =
               [status |-> 200,
                value |-> IntTrunc(PySum(POPULATION_COUNT_DATA,
                                         covered_pixels[CoverageOwner(q)]))]]
    /\ sweep_pc' = [sweep_pc EXCEPT ![q] = "done"]
    /\ UNCHANGED <<sweep_t, covered_pixels, conv_vars, app_globals, est_vars>>

-----------------------------------------------------------------------------
(* Specifications *)

ConvIdle ==
    /\ conv_pc = "start"
    /\ conv_args = [density_units |-> "per_km2", target_pop |-> 7,
                    default_crs |-> "EPSG:4326"]
    /\ src = NoRaster
    /\ crs = "unset"
    /\ density = NoGrid
    /\ pop_counts = NoGrid
    /\ total_pop_raw = Unset
    /\ scale_factor = Unset
    /\ total_pop_adjusted = Unset
    /\ array_file = NoFile
    /\ meta_file = NoMetaFile

AppIdle ==
    /\ POPULATION_COUNT_DATA = DenseRaster
    /\ RASTER_TRANSFORM = GeoTransform
    /\ RASTER_SHAPE = <<Rows, Cols>>
    /\ groundTrack = [i \in 1 .. TrackLen |-> <<0, 0>>]
    /\ sweep_pc = [q \in Reqs |-> "idle"]
    /\ sweep_t = [q \in Reqs |-> 0]
    /\ covered_pixels = [q \in Reqs |-> {}]
    /\ sweep_resp = [q \in Reqs |-> NoResponse]
    /\ est_req = NoRequest
    /\ est_resp = NoResponse

\* the offline conversion, run once as a batch job
InitConv == ConvInit /\ AppIdle

SpecConv == InitConv /\ [][ConvNext]_vars

\* the point query over its whole input space
LatArgs == {Num(v) : v \in {200, 55, 45, 20, 15, 10, 5, 0, -10, -15, -20, -45}}
               \cup {Missing, Text, ArgNaN, ArgInf}

LonArgs == {Num(v) : v \in {-55, -45, -20, -15, -10, 0, 5, 10, 15, 45}}
               \cup {Missing, Text, ArgNaN, ArgInf}

RadiusArgs == {Num(v) : v \in {-5, 0, 1, 1300, 2000}}
                  \cup {Missing, Text, ArgNaN, ArgInf}

PointQuery == get_population_estimate(LatArgs, LonArgs, RadiusArgs)

EstimateNext ==
    \/ PointQuery
    \/ ReturnEstimate

InitEstimate ==
    /\ ConvIdle
    /\ AppInit
    /\ groundTrack = [i \in 1 .. TrackLen |-> <<0, 0>>]

SpecEstimate == InitEstimate /\ [][EstimateNext]_vars

\* the serving process: coverage-score requests in flight, point queries between
HoverQuery == get_population_estimate({Num(0), Text}, {Num(0)}, {Num(1300)})

Next ==
    \/ \E q \in Reqs : StartSweep(q)
    \/ \E q \in Reqs : SweepSample(q)
    \/ \E q \in Reqs : FinishSweep(q)
    \/ HoverQuery
    \/ ReturnEstimate

Init == ConvIdle /\ AppInit

Spec == Init /\ [][Next]_vars

-----------------------------------------------------------------------------
(* Properties of convert_density_to_count, checked under SpecConv          *)

RawTotalUsable == IsFinite(total_pop_raw) /\ ~IsZero(total_pop_raw)

\* |x - target| <= 1e-6 * |target|, for target > 0
WithinTolerance(x, target) ==
    /\ IsFinite(x)
    /\ Abs(x.n - target * x.d) <= (target * x.d) \div 1000000

C7_DegenerateTotalFails ==
    (conv_pc \notin {"start", "masked"}
        /\ total_pop_raw # Unset
        /\ (IsZero(total_pop_raw) \/ ~IsFinite(total_pop_raw))) =>
        /\ conv_pc \in {"counted", "raised"}
        /\ scale_factor = Unset
        /\ array_file.state = "absent"
        /\ meta_file.state = "absent"

\* C8: a conversion that failed leaves no output artifact: neither the array
\* file nor the metadata file exists, whole or in part.
C8_NoArtifactAfterFailure ==
    conv_pc = "raised" =>
        /\ array_file.state = "absent"
        /\ meta_file.state = "absent"

\* C10: default_crs_applied is true exactly when the raster declared no CRS
\* (and the default was substituted).
C10_FlagIffSubstituted ==
    meta_file.state = "complete" =>
        (meta_file.metadata.default_crs_applied <=> src.crs = "none")

-----------------------------------------------------------------------------
(* Properties of get_population_estimate, checked under SpecEstimate       *)

Answered == est_resp # NoResponse

NumericRequest ==
    /\ est_req.lat.k = "num"
    /\ est_req.lon.k = "num"
    /\ est_req.radius_km.k \in {"num", "missing"}

\* the radius the handler works with
RequestRadius == IF est_req.radius_km.k = "missing" THEN 1 ELSE est_req.radius_km.v

\* an argument that makes a step of the computation fail
Malformed ==
    \/ est_req.lat.k # "num"
    \/ est_req.lon.k # "num"
    \/ est_req.radius_km.k \in {"text", "nan", "inf"}

\* C4: the point query always answers normally (status 200), and when a step
\* of the computation fails the answer's estimated_population is 0.
C4_FailSoft ==
    Answered =>
        /\ est_resp.status = 200
        /\ Malformed => est_resp.value = 0

\* a non-finite latitude was answered with 0
C4_Witness ==
    /\ Answered
    /\ est_req.lat = ArgNaN
    /\ est_req.lon.k = "num"
    /\ est_resp = [status |-> 200, value |-> 0]

\* the index box around the centre pixel lies wholly outside the grid
FarOutside(lat, lon, radius_km) ==
    \/ center_row(lat) + row_radius(radius_km) < 0
    \/ center_row(lat) - row_radius(radius_km) >= Rows
    \/ center_col(lon) + col_radius(lat, radius_km) < 0
    \/ center_col(lon) - col_radius(lat, radius_km) >= Cols

\* C5: the estimate is 0 for every point far outside the grid, on any side:
\* a clamped box that does not meet the grid selects no cell.
C5_FarOutsideIsZero ==
    (Answered /\ NumericRequest
        /\ FarOutside(est_req.lat.v, est_req.lon.v, RequestRadius)) =>
        est_resp.value = 0

InGrid(lat, lon) ==
    /\ lon >= RASTER_TRANSFORM.c
    /\ lon < RASTER_TRANSFORM.c + RASTER_TRANSFORM.a * Cols
    /\ lat <= RASTER_TRANSFORM.f
    /\ lat > RASTER_TRANSFORM.f + RASTER_TRANSFORM.e * Rows

\* the pixel whose extent holds the point
ContainingPixel(lat, lon) ==
    CHOOSE p \in Pixels :
        /\ lon >= RASTER_TRANSFORM.c + RASTER_TRANSFORM.a * p[2]
        /\ lon < RASTER_TRANSFORM.c + RASTER_TRANSFORM.a * (p[2] + 1)
        /\ lat <= RASTER_TRANSFORM.f + RASTER_TRANSFORM.e * p[1]
        /\ lat > RASTER_TRANSFORM.f + RASTER_TRANSFORM.e * (p[1] + 1)

\* the pixel and its neighbours, as far as the grid has them
BlockAround(p) ==
    {q \in Pixels : Abs(q[1] - p[1]) <= 1 /\ Abs(q[2] - p[2]) <= 1}

RadiusZeroInGrid ==
    /\ Answered
    /\ NumericRequest
    /\ est_req.radius_km = Num(0)
    /\ InGrid(est_req.lat.v, est_req.lon.v)

\* C6 as stated: with radius 0 the estimate is the count of the one pixel
\* that holds the point.
C6_RadiusZeroIsOnePixel ==
    RadiusZeroInGrid =>
        est_resp.value =
            IntTrunc(POPULATION_COUNT_DATA[ContainingPixel(est_req.lat.v, est_req.lon.v)])

\* C6 amended: with radius 0 the estimate is the truncated sum of the 3 x 3
\* block of pixels centred on the pixel that holds the point, cut at the grid's
\* edges (the half-extent of the box is never less than one pixel).
C6_RadiusZeroIsBlock ==
    RadiusZeroInGrid =>
        est_resp.value =
            IntTrunc(SumOver(POPULATION_COUNT_DATA,
                             BlockAround(ContainingPixel(est_req.lat.v, est_req.lon.v))))

\* a radius-0 query in the grid whose answer exceeds its pixel's count
C6_Witness ==
    /\ RadiusZeroInGrid
    /\ Cardinality(BlockAround(ContainingPixel(est_req.lat.v, est_req.lon.v))) = 9
    /\ est_resp.value >
           IntTrunc(POPULATION_COUNT_DATA[ContainingPixel(est_req.lat.v, est_req.lon.v)])

-----------------------------------------------------------------------------
(* Properties of get_coverage_score and of the serving process (Spec)      *)

\* the distinct subpoints among the first n samples
SamplesSeen(n) == {groundTrack[i] : i \in 1 .. n}

\* the pixels within the spotbeam of some point of S
UnionOfFootprints(S) == UNION {SamplePixels(s[1], s[2]) : s \in S}

CoverageIsUnion ==
    \A q \in Reqs :
        /\ sweep_pc[q] \in {"loop", "done"} =>
               covered_pixels[q] = UnionOfFootprints(SamplesSeen(sweep_t[q]))
        /\ sweep_pc[q] = "done" =>
               sweep_resp[q] =
                   [status |-> 200,
                    value |-> IntTrunc(SumOver(POPULATION_COUNT_DATA,
                                               UnionOfFootprints(SamplesSeen(TrackLen))))]

CoverageGrows ==
    \A q \in Reqs :
        sweep_pc[q] = "loop" => covered_pixels[q] \subseteq covered_pixels'[q]

\* C2: the coverage state is the set union of the pixels kept for the samples
\* seen so far, whatever their order and however often a subpoint or a pixel
\* recurs; it only grows during a sweep; and the score is the sum of the
\* counts over that set of distinct pixels.
C2_CoverageIsSetUnion == []CoverageIsUnion /\ [][CoverageGrows]_vars

\* a finished sweep in which a populated pixel lay within the spotbeam of two
\* different samples
C2_Witness ==
    \E q \in Reqs :
        /\ sweep_pc[q] = "done"
        /\ groundTrack[1] # groundTrack[2]
        /\ \E p \in Pixels :
             /\ p \in SamplePixels(groundTrack[1][1], groundTrack[1][2])
             /\ p \in SamplePixels(groundTrack[2][1], groundTrack[2][2])
             /\ ~IsZero(POPULATION_COUNT_DATA[p])
        /\ sweep_resp[q].value > 0

\* the pixels of the sample's index box, cut at the grid's edges
ClampedBox(lat, lon) ==
    {p \in Pixels :
        /\ Abs(p[1] - center_row(lat)) <= row_radius(spotbeam_radius_km)
        /\ Abs(p[2] - center_col(lon)) <= sweep_col_radius(lat)}

\* the pixels of that box whose centre lies within the spotbeam radius
CircleFootprint(lat, lon) ==
    {p \in ClampedBox(lat, lon) : WithinSpotbeam(lat, lon, p[1], p[2])}

\* C3 as stated: the coverage score is at least the point estimate at every
\* sample of the track, for the same radius.
C3_CoverageAtLeastEstimate ==
    \A q \in Reqs :
        sweep_pc[q] = "done" =>
            \A i \in 1 .. Len(groundTrack) :
                sweep_resp[q].value >=
                    EstimatePopulation(groundTrack[i][1], groundTrack[i][2],
                                       spotbeam_radius_km)

\* C3 amended: the coverage score is at least the truncated sum of the counts
\* over the circular footprint of every sample (the pixels of its clamped box
\* whose centres are within the radius), for a raster of non-negative counts.
C3_CoverageAtLeastFootprint ==
    \A q \in Reqs :
        sweep_pc[q] = "done" =>
            \A i \in 1 .. Len(groundTrack) :
                sweep_resp[q].value >=
                    IntTrunc(SumOver(POPULATION_COUNT_DATA,
                                     CircleFootprint(groundTrack[i][1], groundTrack[i][2])))

\* a finished sweep whose score exceeds the footprint sum of its first sample
\* and is below the point estimate there
C3_Witness ==
    \E q \in Reqs :
        /\ sweep_pc[q] = "done"
        /\ CircleFootprint(groundTrack[1][1], groundTrack[1][2]) # {}
        /\ sweep_resp[q].value >
               IntTrunc(SumOver(POPULATION_COUNT_DATA,
                                CircleFootprint(groundTrack[1][1], groundTrack[1][2])))
        /\ sweep_resp[q].value <
               EstimatePopulation(groundTrack[1][1], groundTrack[1][2], spotbeam_radius_km)

\* the sweep run alone, start to end
RECURSIVE SweepAlone(_)
SweepAlone(n) ==
    IF n = 0 THEN {}
    ELSE SweepAlone(n - 1) \cup SamplePixels(groundTrack[n][1], groundTrack[n][2])

GlobalsUnchanged ==
    /\ POPULATION_COUNT_DATA' = POPULATION_COUNT_DATA
    /\ RASTER_TRANSFORM' = RASTER_TRANSFORM
    /\ RASTER_SHAPE' = RASTER_SHAPE

\* a request's set starts empty and no step of another request touches it
CoverageIsLocal ==
    \A q \in Reqs :
        /\ (sweep_pc[q] # "loop" /\ sweep_pc'[q] = "loop") => covered_pixels'[q] = {}
        /\ (sweep_pc'[q] = sweep_pc[q] /\ sweep_t'[q] = sweep_t[q]) =>
               covered_pixels'[q] = covered_pixels[q]

ResultsAsAlone ==
    /\ \A q \in Reqs :
           sweep_pc[q] = "done" =>
               sweep_resp[q].value =
                   IntTrunc(SumOver(POPULATION_COUNT_DATA, SweepAlone(Len(groundTrack))))
    /\ Answered => est_resp = EstimateResponse(est_req.lat, est_req.lon, est_req.radius_km)

\* C9: no request changes POPULATION_COUNT_DATA, RASTER_TRANSFORM or
\* RASTER_SHAPE; every sweep's set is created empty and is touched by no other
\* request; and every request's result is the one it has when run alone.
C9_RequestsAreIsolated ==
    /\ [][GlobalsUnchanged /\ CoverageIsLocal]_vars
    /\ []ResultsAsAlone

\* one sweep has finished while another is half way, their sets differ, and a
\* point query was answered in between
C9_Witness ==
    /\ sweep_pc[1] = "done"
    /\ sweep_pc[2] = "loop"
    /\ sweep_t[2] = 1
    /\ covered_pixels[1] # covered_pixels[2]
    /\ covered_pixels[2] # {}
    /\ Answered

====
